---- MODULE Spec2Model ----
(***************************************************************************)
(* Model of dragonfly/world/provider.go: the Provider interface and its    *)
(* one implementation in the file, NoIOProvider.                           *)
(*                                                                         *)
(* A provider is driven by one caller (the world), synchronously.  Every   *)
(* method of the interface is one action; the action records the call in   *)
(* `call` and what the method returned in `ret`.                           *)
(*                                                                         *)
(* NoIOProvider is `struct{}` with value receivers: it has no fields, so   *)
(* its methods are modelled by the operators NoIOProvider_* (the returned  *)
(* value) and its actions leave every store variable unchanged.            *)
(*                                                                         *)
(* The interface's doc comments describe a backend that retains what is    *)
(* saved.  No such backend is in the file; the Stored_* definitions model  *)
(* one from the documented contract, so that the contract's statements     *)
(* can be checked against both kinds of provider.                          *)
(***************************************************************************)
EXTENDS Integers, Sequences, FiniteSets, TLC

\* ---------------------------------------------------------------- bounds
\* Close may be called at most MaxCloses times in a behaviour.
MaxCloses == 2
\* Largest tick count passed to SaveTime.
MaxTime == 1

\* ---------------------------------------------------------------- values
\* Go's nil (chunk pointer, error).
Nil == "nil"

\* ChunkPos values used as inputs: (0,0) and (3,-2).
Positions == {<<0, 0>>, <<3, -2>>}

\* *chunk.Chunk payloads, opaque to the provider.
Chunks == {"A", "B"}

\* []Entity arguments: the empty list, a two-entity list and a one-entity
\* list.
EntityLists == {<<>>, <<"e1", "e2">>, <<"e2">>}

\* World names, spawn positions (BlockPos), tick counts, game modes.
Names == {"", "world"}
Spawns == {<<0, 30, 0>>, <<5, -3, 7>>}
Times == 0..MaxTime
GameModes == {"Creative", "Adventure"}

Backends == {"NoIO", "Stored"}

VARIABLES
    backend,        \* which Provider implementation the world holds
    chunks,         \* Stored: position -> chunk saved there, or Nil
    corrupt,        \* Stored: positions whose saved chunk data is invalid
    entities,       \* Stored: position -> entity list saved there
    name,           \* Stored: world name
    spawn,          \* Stored: world spawn
    time,           \* Stored: world time
    cycle,          \* Stored: time cycle running
    mode,           \* Stored: default game mode
    call,           \* the last method called, with its arguments
    ret,            \* what that method returned
    fresh,          \* what each load/get returned on the constructed provider
    savedPositions, \* positions passed to SaveChunk so far
    closes          \* number of Close calls so far

store == <<chunks, corrupt, entities, name, spawn, time, cycle, mode>>
vars == <<backend, chunks, corrupt, entities, name, spawn, time, cycle, mode,
          call, ret, fresh, savedPositions, closes>>

\* ------------------------------------------------- NoIOProvider (the code)
\* Variant: the mode last set is returned.
NoIOProvider_DefaultGameMode_Retains ==
    IF call.op = "SetDefaultGameMode" THEN call.mode ELSE "Adventure"

NoIOProvider_DefaultGameMode == "Adventure"

NoIOProvider_LoadTimeCycle == TRUE

\* Variant: the time last saved is returned.
NoIOProvider_LoadTime_Retains ==
    IF call.op = "SaveTime" THEN call.time ELSE 0

\* Variant: setting the spawn disturbs the time.
NoIOProvider_LoadTime_Spawn ==
    IF call.op = "SetWorldSpawn" THEN call.pos[2] ELSE 0

NoIOProvider_LoadTime == 0

\* Variant: the entities last saved at the position are returned.
NoIOProvider_LoadEntities_Retains(position) ==
    IF call.op = "SaveEntities" /\ call.position = position
    THEN [entities |-> call.ents, err |-> Nil]
    ELSE [entities |-> <<>>, err |-> Nil]

NoIOProvider_LoadEntities(position) == [entities |-> <<>>, err |-> Nil]

NoIOProvider_SaveEntities(position, ents) == [err |-> Nil]

\* Variant: a closed provider refuses to save.
NoIOProvider_SaveChunk_Closed(position, c) ==
    IF closes >= 1 THEN [err |-> "provider closed"] ELSE [err |-> Nil]

NoIOProvider_SaveChunk(position, c) == [err |-> Nil]

\* Variant: the chunk last saved at the position is returned.
NoIOProvider_LoadChunk_Retains(position) ==
    IF call.op = "SaveChunk" /\ call.position = position
    THEN [c |-> call.c, exists |-> TRUE, err |-> Nil]
    ELSE [c |-> Nil, exists |-> FALSE, err |-> Nil]

\* Variant: a chunk is made up for a position that holds none.
NoIOProvider_LoadChunk_Fabricates(position) ==
    [c |-> "A", exists |-> TRUE, err |-> Nil]

\* Variant: not-found is reported as an error.
NoIOProvider_LoadChunk_NotFoundError(position) ==
    [c |-> Nil, exists |-> FALSE, err |-> "not found"]

NoIOProvider_LoadChunk(position) == [c |-> Nil, exists |-> FALSE, err |-> Nil]

NoIOProvider_WorldName == ""

\* Variant: the spawn is on the world floor.
NoIOProvider_WorldSpawn_Floor == <<0, 0, 0>>

NoIOProvider_WorldSpawn == <<0, 30, 0>>

\* Variant: a second Close fails.
NoIOProvider_Close_Once ==
    IF closes >= 1 THEN [err |-> "already closed"] ELSE [err |-> Nil]

NoIOProvider_Close == [err |-> Nil]

\* --------------------------------- a backend that retains what is saved
Stored_LoadChunk(position) ==
    IF chunks[position] = Nil
    THEN [c |-> Nil, exists |-> FALSE, err |-> Nil]
    ELSE IF position \in corrupt
         THEN [c |-> Nil, exists |-> TRUE, err |-> "CorruptDataError"]
         ELSE [c |-> chunks[position], exists |-> TRUE, err |-> Nil]

Stored_LoadEntities(position) == [entities |-> entities[position], err |-> Nil]

\* ------------------------------------------------ what the caller observes
\* The result of each load/get method if it were called in the current state.
Get_LoadChunk(position) ==
    IF backend = "NoIO" THEN NoIOProvider_LoadChunk(position)
    ELSE Stored_LoadChunk(position)

Get_LoadEntities(position) ==
    IF backend = "NoIO" THEN NoIOProvider_LoadEntities(position)
    ELSE Stored_LoadEntities(position)

Get_WorldName == IF backend = "NoIO" THEN NoIOProvider_WorldName ELSE name

Get_WorldSpawn == IF backend = "NoIO" THEN NoIOProvider_WorldSpawn ELSE spawn

Get_LoadTime == IF backend = "NoIO" THEN NoIOProvider_LoadTime ELSE time

Get_LoadTimeCycle ==
    IF backend = "NoIO" THEN NoIOProvider_LoadTimeCycle ELSE cycle

Get_DefaultGameMode ==
    IF backend = "NoIO" THEN NoIOProvider_DefaultGameMode ELSE mode

\* Every load/get result of the provider in the current state.
Observation ==
    [LoadChunk       |-> [p \in Positions |-> Get_LoadChunk(p)],
     LoadEntities    |-> [p \in Positions |-> Get_LoadEntities(p)],
     WorldName       |-> Get_WorldName,
     WorldSpawn      |-> Get_WorldSpawn,
     LoadTime        |-> Get_LoadTime,
     LoadTimeCycle   |-> Get_LoadTimeCycle,
     DefaultGameMode |-> Get_DefaultGameMode]

\* A method may be called: the persisting backend releases its resources on
\* Close and accepts no call afterwards; NoIOProvider has no such state.
Usable == backend = "NoIO" \/ closes = 0

\* ------------------------------------------------------------------- Init
Init ==
    /\ backend \in Backends
    /\ chunks = [p \in Positions |-> Nil]
    /\ corrupt = {}
    /\ entities = [p \in Positions |-> <<>>]
    /\ name = ""
    /\ spawn = <<0, 30, 0>>
    /\ time = 0
    /\ cycle = TRUE
    /\ mode = "Adventure"
    /\ call = [op |-> "New"]
    /\ ret = [void |-> TRUE]
    /\ fresh = Observation
    /\ savedPositions = {}
    /\ closes = 0

\* ---------------------------------------------------------------- actions
WorldName ==
    /\ Usable
    /\ call' = [op |-> "WorldName"]
    /\ ret' = [val |-> Get_WorldName]
    /\ UNCHANGED <<backend, store, fresh, savedPositions, closes>>

SetWorldName(n) ==
    /\ Usable
    /\ call' = [op |-> "SetWorldName", name |-> n]
    /\ ret' = [void |-> TRUE]
    /\ name' = IF backend = "NoIO" THEN name ELSE n
    /\ UNCHANGED <<backend, chunks, corrupt, entities, spawn, time, cycle,
                   mode, fresh, savedPositions, closes>>

WorldSpawn ==
    /\ Usable
    /\ call' = [op |-> "WorldSpawn"]
    /\ ret' = [val |-> Get_WorldSpawn]
    /\ UNCHANGED <<backend, store, fresh, savedPositions, closes>>

SetWorldSpawn(pos) ==
    /\ Usable
    /\ call' = [op |-> "SetWorldSpawn", pos |-> pos]
    /\ ret' = [void |-> TRUE]
    /\ spawn' = IF backend = "NoIO" THEN spawn ELSE pos
    /\ UNCHANGED <<backend, chunks, corrupt, entities, name, time, cycle,
                   mode, fresh, savedPositions, closes>>

LoadChunk(position) ==
    /\ Usable
    /\ call' = [op |-> "LoadChunk", position |-> position]
    /\ ret' = Get_LoadChunk(position)
    /\ UNCHANGED <<backend, store, fresh, savedPositions, closes>>

SaveChunk(position, c) ==
    /\ Usable
    /\ call' = [op |-> "SaveChunk", position |-> position, c |-> c]
    /\ IF backend = "NoIO"
       THEN /\ ret' = NoIOProvider_SaveChunk(position, c)
            /\ UNCHANGED <<chunks, corrupt>>
       ELSE /\ ret' = [err |-> Nil]
            /\ chunks' = [chunks EXCEPT ![position] = c]
            /\ corrupt' = corrupt \ {position}
    /\ savedPositions' = savedPositions \cup {position}
    /\ UNCHANGED <<backend, entities, name, spawn, time, cycle, mode, fresh,
                   closes>>

LoadEntities(position) ==
    /\ Usable
    /\ call' = [op |-> "LoadEntities", position |-> position]
    /\ ret' = Get_LoadEntities(position)
    /\ UNCHANGED <<backend, store, fresh, savedPositions, closes>>

SaveEntities(position, ents) ==
    /\ Usable
    /\ call' = [op |-> "SaveEntities", position |-> position, ents |-> ents]
    /\ IF backend = "NoIO"
       THEN /\ ret' = NoIOProvider_SaveEntities(position, ents)
            /\ UNCHANGED entities
       ELSE /\ ret' = [err |-> Nil]
            /\ entities' = [entities EXCEPT ![position] = ents]
    /\ UNCHANGED <<backend, chunks, corrupt, name, spawn, time, cycle, mode,
                   fresh, savedPositions, closes>>

LoadTime ==
    /\ Usable
    /\ call' = [op |-> "LoadTime"]
    /\ ret' = [val |-> Get_LoadTime]
    /\ UNCHANGED <<backend, store, fresh, savedPositions, closes>>

SaveTime(t) ==
    /\ Usable
    /\ call' = [op |-> "SaveTime", time |-> t]
    /\ ret' = [void |-> TRUE]
    /\ time' = IF backend = "NoIO" THEN time ELSE t
    /\ UNCHANGED <<backend, chunks, corrupt, entities, name, spawn, cycle,
                   mode, fresh, savedPositions, closes>>

SaveTimeCycle(running) ==
    /\ Usable
    /\ call' = [op |-> "SaveTimeCycle", running |-> running]
    /\ ret' = [void |-> TRUE]
    /\ cycle' = IF backend = "NoIO" THEN cycle ELSE running
    /\ UNCHANGED <<backend, chunks, corrupt, entities, name, spawn, time,
                   mode, fresh, savedPositions, closes>>

LoadTimeCycle ==
    /\ Usable
    /\ call' = [op |-> "LoadTimeCycle"]
    /\ ret' = [val |-> Get_LoadTimeCycle]
    /\ UNCHANGED <<backend, store, fresh, savedPositions, closes>>

DefaultGameMode ==
    /\ Usable
    /\ call' = [op |-> "DefaultGameMode"]
    /\ ret' = [val |-> Get_DefaultGameMode]
    /\ UNCHANGED <<backend, store, fresh, savedPositions, closes>>

SetDefaultGameMode(m) ==
    /\ Usable
    /\ call' = [op |-> "SetDefaultGameMode", mode |-> m]
    /\ ret' = [void |-> TRUE]
    /\ mode' = IF backend = "NoIO" THEN mode ELSE m
    /\ UNCHANGED <<backend, chunks, corrupt, entities, name, spawn, time,
                   cycle, fresh, savedPositions, closes>>

Close ==
    /\ Usable
    /\ closes < MaxCloses
    /\ call' = [op |-> "Close"]
    /\ ret' = IF backend = "NoIO" THEN NoIOProvider_Close ELSE [err |-> Nil]
    /\ closes' = closes + 1
    /\ UNCHANGED <<backend, store, fresh, savedPositions>>

\* The data a persisting backend holds for a saved chunk becomes invalid
\* (the "chunk did exist, but the data was invalid" case of LoadChunk).
DataCorrupted(position) ==
    /\ backend = "Stored"
    /\ closes = 0
    /\ chunks[position] # Nil
    /\ position \notin corrupt
    /\ corrupt' = corrupt \cup {position}
    /\ call' = [op |-> "DataCorrupted", position |-> position]
    /\ ret' = [void |-> TRUE]
    /\ UNCHANGED <<backend, chunks, entities, name, spawn, time, cycle, mode,
                   fresh, savedPositions, closes>>

Next ==
    \/ WorldName
    \/ \E n \in Names : SetWorldName(n)
    \/ WorldSpawn
    \/ \E pos \in Spawns : SetWorldSpawn(pos)
    \/ \E p \in Positions : LoadChunk(p)
    \/ \E p \in Positions, c \in Chunks : SaveChunk(p, c)
    \/ \E p \in Positions : LoadEntities(p)
    \/ \E p \in Positions, l \in EntityLists : SaveEntities(p, l)
    \/ LoadTime
    \/ \E t \in Times : SaveTime(t)
    \/ \E r \in BOOLEAN : SaveTimeCycle(r)
    \/ LoadTimeCycle
    \/ DefaultGameMode
    \/ \E m \in GameModes : SetDefaultGameMode(m)
    \/ Close
    \/ \E p \in Positions : DataCorrupted(p)

Spec == Init /\ [][Next]_vars


\* ============================================================ properties
NotFound == [c |-> Nil, exists |-> FALSE, err |-> Nil]

\* The load and get methods of the interface.
LoadOps == {"LoadChunk", "LoadEntities", "LoadTime", "LoadTimeCycle",
            "WorldSpawn", "WorldName", "DefaultGameMode"}

\* The methods of the interface that return an error.
SaveOps == {"SaveChunk", "SaveEntities"}

\* What the load/get call cl returned on the freshly constructed provider.
FreshResult(cl) ==
    CASE cl.op = "LoadChunk"       -> fresh.LoadChunk[cl.position]
      [] cl.op = "LoadEntities"    -> fresh.LoadEntities[cl.position]
      [] cl.op = "LoadTime"        -> [val |-> fresh.LoadTime]
      [] cl.op = "LoadTimeCycle"   -> [val |-> fresh.LoadTimeCycle]
      [] cl.op = "WorldSpawn"      -> [val |-> fresh.WorldSpawn]
      [] cl.op = "WorldName"       -> [val |-> fresh.WorldName]
      [] cl.op = "DefaultGameMode" -> [val |-> fresh.DefaultGameMode]

\* Order-insensitive equality of two entity lists.
Occurrences(e, s) == Cardinality({i \in 1..Len(s) : s[i] = e})

Range(s) == {s[i] : i \in 1..Len(s)}

SameEntities(s, t) ==
    /\ Len(s) = Len(t)
    /\ \A e \in Range(s) \cup Range(t) : Occurrences(e, s) = Occurrences(e, t)

\* C1: on NoIOProvider every load/get call, whatever was saved or set before
\* it, returns what the same call returns on the freshly constructed
\* provider.
C1_NoIOSaveIsDiscarded ==
    (backend = "NoIO" /\ call.op \in LoadOps) => ret = FreshResult(call)

C1_Witness ==
    /\ backend = "NoIO"
    /\ call.op = "LoadChunk"
    /\ call.position \in savedPositions

\* C2: LoadChunk of a position never passed to SaveChunk returns
\* (nil, false, nil); on NoIOProvider LoadChunk of every position does.
C2_NoFalseDiscovery ==
    (/\ call.op = "LoadChunk"
     /\ (call.position \notin savedPositions \/ backend = "NoIO"))
        => ret = NotFound

C2_Witness ==
    /\ backend = "NoIO"
    /\ call.op = "LoadChunk"
    /\ call.position \notin savedPositions
    /\ savedPositions # {}

\* C3: every LoadChunk result is (chunk, true, nil), (nil, false, nil) or
\* (nil, true, error).
C3_TriState ==
    call.op = "LoadChunk" =>
        \/ ret.c # Nil /\ ret.exists /\ ret.err = Nil
        \/ ret.c = Nil /\ ~ret.exists /\ ret.err = Nil
        \/ ret.c = Nil /\ ret.exists /\ ret.err # Nil

C3_Witness ==
    /\ backend = "NoIO"
    /\ call.op = "LoadChunk"
    /\ savedPositions = Positions

\* C4: on NoIOProvider LoadTimeCycle returns true, LoadTime 0, WorldSpawn
\* (0, 30, 0) with y above 0, DefaultGameMode Adventure, WorldName "" and
\* LoadEntities the empty list without error.
C4_NoIODefaults ==
    backend = "NoIO" =>
        /\ call.op = "LoadTimeCycle" => ret.val = TRUE
        /\ call.op = "LoadTime" => ret.val = 0
        /\ call.op = "WorldSpawn" => ret.val = <<0, 30, 0>> /\ ret.val[2] > 0
        /\ call.op = "DefaultGameMode" => ret.val = "Adventure"
        /\ call.op = "WorldName" => ret.val = ""
        /\ call.op = "LoadEntities" => ret.entities = <<>> /\ ret.err = Nil

C4_Witness ==
    /\ backend = "NoIO"
    /\ call.op = "WorldSpawn"
    /\ closes = 0

\* C5 as stated: on every provider, SaveChunk(p, c) returning without error
\* followed by LoadChunk(p) returns (c, true, nil).
C5_Original ==
    [][(/\ call.op = "SaveChunk"
        /\ ret.err = Nil
        /\ call'.op = "LoadChunk"
        /\ call'.position = call.position)
           => ret' = [c |-> call.c, exists |-> TRUE, err |-> Nil]]_vars

\* C5 (amended): SaveChunk(p, c) returning without error followed by
\* LoadChunk(p) returns (c, true, nil) on a provider that retains what is
\* saved, and (nil, false, nil) on NoIOProvider.
C5_ChunkRoundTrip ==
    [][(/\ call.op = "SaveChunk"
        /\ ret.err = Nil
        /\ call'.op = "LoadChunk"
        /\ call'.position = call.position)
           => ret' = IF backend = "NoIO"
                     THEN NotFound
                     ELSE [c |-> call.c, exists |-> TRUE, err |-> Nil]]_vars

C5_Witness ==
    /\ backend = "NoIO"
    /\ call.op = "LoadChunk"
    /\ savedPositions = {call.position}
    /\ ret = NotFound

\* C6 as stated: on every provider, SaveEntities(p, L) followed by
\* LoadEntities(p) returns the entities of L (in any order) and no error.
C6_Original ==
    [][(/\ call.op = "SaveEntities"
        /\ ret.err = Nil
        /\ call'.op = "LoadEntities"
        /\ call'.position = call.position)
           => /\ SameEntities(ret'.entities, call.ents)
              /\ ret'.err = Nil]_vars

\* C6 (amended): SaveEntities(p, L) followed by LoadEntities(p) returns no
\* error and, on a provider that retains what is saved, the entities of L
\* (in any order) whatever was saved at p before; on NoIOProvider it returns
\* the empty list for every L.
C6_EntityRoundTrip ==
    [][(/\ call.op = "SaveEntities"
        /\ ret.err = Nil
        /\ call'.op = "LoadEntities"
        /\ call'.position = call.position)
           => /\ ret'.err = Nil
              /\ IF backend = "NoIO"
                 THEN ret'.entities = <<>>
                 ELSE SameEntities(ret'.entities, call.ents)]_vars

C6_Witness ==
    /\ backend = "NoIO"
    /\ call.op = "SaveEntities"
    /\ call.ents # <<>>
    /\ Get_LoadEntities(call.position).entities = <<>>

\* The value a setter call was given, and the getter that reads it back.
SetterOps == {"SetDefaultGameMode", "SetWorldName", "SetWorldSpawn",
              "SaveTime", "SaveTimeCycle"}

GetterOf(op) ==
    CASE op = "SetDefaultGameMode" -> "DefaultGameMode"
      [] op = "SetWorldName"       -> "WorldName"
      [] op = "SetWorldSpawn"      -> "WorldSpawn"
      [] op = "SaveTime"           -> "LoadTime"
      [] op = "SaveTimeCycle"      -> "LoadTimeCycle"

ValueSet(cl) ==
    CASE cl.op = "SetDefaultGameMode" -> cl.mode
      [] cl.op = "SetWorldName"       -> cl.name
      [] cl.op = "SetWorldSpawn"      -> cl.pos
      [] cl.op = "SaveTime"           -> cl.time
      [] cl.op = "SaveTimeCycle"      -> cl.running

\* C7 as stated: on every provider, a metadata setter followed by its getter
\* returns the value that was set.
C7_Original ==
    [][(/\ call.op \in SetterOps
        /\ call'.op = GetterOf(call.op))
           => ret'.val = ValueSet(call)]_vars

\* C7 (amended): a metadata setter followed by its getter returns the value
\* that was set on a provider that retains what is saved; on NoIOProvider
\* the getter returns its fixed default whatever value was set.
C7_GetterSetter ==
    [][(/\ call.op \in SetterOps
        /\ call'.op = GetterOf(call.op))
           => ret' = IF backend = "NoIO"
                     THEN FreshResult(call')
                     ELSE [val |-> ValueSet(call)]]_vars

C7_Witness ==
    /\ backend = "NoIO"
    /\ call.op = "SetDefaultGameMode"
    /\ call.mode = "Creative"
    /\ Get_DefaultGameMode = "Adventure"

\* The results of the metadata getters other than the one named.
OtherMetadata(getter) ==
    <<IF getter = "WorldName" THEN Nil ELSE Get_WorldName,
      IF getter = "WorldSpawn" THEN Nil ELSE Get_WorldSpawn,
      IF getter = "LoadTime" THEN Nil ELSE Get_LoadTime,
      IF getter = "LoadTimeCycle" THEN Nil ELSE Get_LoadTimeCycle,
      IF getter = "DefaultGameMode" THEN Nil ELSE Get_DefaultGameMode>>

\* C8: a metadata setter leaves the results of the four other metadata
\* getters, of LoadChunk and of LoadEntities unchanged.
C8_MetadataIndependence ==
    [][\A op \in SetterOps :
           call'.op = op =>
               /\ OtherMetadata(GetterOf(op))' = OtherMetadata(GetterOf(op))
               /\ \A p \in Positions :
                      /\ Get_LoadChunk(p)' = Get_LoadChunk(p)
                      /\ Get_LoadEntities(p)' = Get_LoadEntities(p)]_vars

C8_Witness ==
    /\ call.op = "SetWorldSpawn"
    /\ call.pos # fresh.WorldSpawn
    /\ savedPositions # {}

\* C9: on NoIOProvider SaveChunk, SaveEntities, LoadChunk, LoadEntities and
\* Close return a nil error, and a Close call, the first or a repeated one,
\* changes the result of no load or get.
C9_NoIONeverFails ==
    [][backend = "NoIO" =>
           /\ call'.op \in SaveOps \cup {"LoadChunk", "LoadEntities", "Close"}
                  => ret'.err = Nil
           /\ call'.op = "Close" => Observation' = Observation]_vars

C9_Witness ==
    /\ backend = "NoIO"
    /\ call.op = "Close"
    /\ closes >= 2

====
